---- MODULE Spec2Model ----
(***************************************************************************)
(* MultiSVGCreator (svg_editor.py): a registry of svgwrite drawings keyed  *)
(* by filename, mutators that append one element to a drawing, save_all,   *)
(* and the two getters.  Strings the code takes apart (size components,    *)
(* text to wrap) are sequences of one-character strings.                   *)
(***************************************************************************)
EXTENDS Integers, Sequences, FiniteSets, TLC

VARIABLES drawings, SIZE, palette, files, call

vars == <<drawings, SIZE, palette, files, call>>

\* ------------------------------------------------------------------ bounds
\* Most elements held by the whole registry in a run of Spec, which explores
\* every operation with every kind of argument.
MaxElements == 1
\* Most elements held by the whole registry in a run of SpecAppend and SpecSave,
\* which explore longer element sequences with fewer kinds of argument.
MaxDepth == 2
\* Longest text enumerated for the wrapping specification.
MaxTextLen == 5
\* Largest width_limit enumerated for the wrapping specification.
MaxWidthLimit == 3
\* Largest source/target pixel dimension enumerated for the resize specification.
MaxDim == 4

\* ------------------------------------------------------------- value sets
None == "None"
\* self.SIZE before any create_new_drawing: the attribute does not exist.
Unset == <<>>
\* A path at which no file exists.
NoFile == [tag |-> "nofile"]

Filenames == {"a.svg", "b.svg"}

\* size=('1244', '1756px') is the default of create_new_drawing; the second
\* tuple is a small canvas whose components parse to pixel counts.
DefaultSize == << <<"1", "2", "4", "4">>, <<"1", "7", "5", "6", "p", "x">> >>
SmallSize == << <<"2", "p", "x">>, <<"3">> >>
BadSize == << <<"2", "p", "t">>, <<"3">> >>
Sizes == {DefaultSize, SmallSize}
HundredSize == << <<"1", "0", "0">>, <<"1", "0", "0", "p", "x">> >>
HundredByFifty == << <<"1", "0", "0", "p", "x">>, <<"5", "0">> >>

Origin == <<0, 0>>

Digits == {"0", "1", "2", "3", "4", "5", "6", "7", "8", "9"}

DigitValue(c) ==
    CASE c = "0" -> 0 [] c = "1" -> 1 [] c = "2" -> 2 [] c = "3" -> 3
      [] c = "4" -> 4 [] c = "5" -> 5 [] c = "6" -> 6 [] c = "7" -> 7
      [] c = "8" -> 8 [] c = "9" -> 9

\* The class attribute; palette is the dict as it stands at run time.
COLOR_PALETTE ==
    [n \in {"light_blue", "dark_blue", "dark_blue_2", "black", "white"} |->
        CASE n = "light_blue" -> "rgb(125, 206, 237)"
          [] n = "dark_blue" -> "rgb(0, 96, 169)"
          [] n = "dark_blue_2" -> "rgb(0, 51, 204)"
          [] n = "black" -> "rgb(0, 0, 0)"
          [] n = "white" -> "rgb(255, 255, 255)"]

\* ---------------------------------------------------------------- registry
\* self.drawings is a dict: a sequence of entries in insertion order, one per key.
Keys(ds) == {ds[i].filename : i \in 1..Len(ds)}

IndexOf(ds, f) == CHOOSE i \in 1..Len(ds) : ds[i].filename = f

Lookup(ds, f) == ds[IndexOf(ds, f)]

RECURSIVE TotalElements(_)
TotalElements(ds) ==
    IF ds = <<>> THEN 0 ELSE Len(Head(ds).elements) + TotalElements(Tail(ds))

\* svgwrite.Drawing(filename=filename, size=size): an empty drawing.
NewDrawing(f, size) == [filename |-> f, size |-> size, elements |-> <<>>]

\* Puts the element first instead of last.
DrawingAddWrong(ds, f, e) ==
    [ds EXCEPT ![IndexOf(ds, f)].elements = <<e>> \o @]

\* self.drawings[filename].add(element): element goes last in that drawing.
DrawingAdd(ds, f, e) ==
    [ds EXCEPT ![IndexOf(ds, f)].elements = Append(@, e)]

\* What Drawing.save() writes: the svg root with its size and, after the defs
\* element svgwrite puts first, the added elements in order.
ToXml(d) ==
    [tag |-> "svg", size |-> d.size,
     children |-> <<[kind |-> "defs"]>> \o d.elements]

Result(op, args, status, value) ==
    [op |-> op, args |-> args, status |-> status, value |-> value]

Init ==
    /\ drawings = <<>>
    /\ SIZE = Unset
    /\ palette = COLOR_PALETTE
    /\ files = [p \in Filenames |-> NoFile]
    /\ call = Result("__init__", <<>>, "ok", None)

\* ------------------------------------------------------------------ create
\* Replaces an existing drawing by an empty one instead of raising.
create_overwrite(filename, size) ==
    /\ SIZE' = size
    /\ drawings' = IF filename \in Keys(drawings)
                     THEN [drawings EXCEPT ![IndexOf(drawings, filename)] =
                               NewDrawing(filename, size)]
                     ELSE Append(drawings, NewDrawing(filename, size))
    /\ call' = Result("create_new_drawing",
                      [filename |-> filename, size |-> size], "ok", None)
    /\ UNCHANGED <<palette, files>>

create_new_drawing(filename, size) ==
    IF filename \in Keys(drawings)
      THEN /\ call' = Result("create_new_drawing",
                             [filename |-> filename, size |-> size],
                             "Exception", None)
           /\ UNCHANGED <<drawings, SIZE, palette, files>>
      ELSE /\ SIZE' = size
           /\ drawings' = Append(drawings, NewDrawing(filename, size))
           /\ call' = Result("create_new_drawing",
                             [filename |-> filename, size |-> size], "ok", None)
           /\ UNCHANGED <<palette, files>>

\* ---------------------------------------------------------------- save_all
\* The entries written before the loop stops: all of them, or those before the
\* first whose file cannot be opened for writing.
RECURSIVE Saved(_, _)
Saved(ds, unwritable) ==
    IF ds = <<>> \/ Head(ds).filename \in unwritable THEN <<>>
    ELSE <<Head(ds)>> \o Saved(Tail(ds), unwritable)

WriteAll(fs, ds) ==
    [p \in DOMAIN fs |->
        IF p \in Keys(ds) THEN ToXml(Lookup(ds, p)) ELSE fs[p]]

\* Saves the first drawing only.
save_all_first_only(unwritable) ==
    LET done == IF drawings = <<>> \/ Head(drawings).filename \in unwritable
                  THEN <<>> ELSE <<Head(drawings)>>
    IN  /\ files' = WriteAll(files, done)
        /\ call' = Result("save_all", [unwritable |-> unwritable],
                          IF drawings # <<>> /\ done = <<>>
                            THEN "OSError" ELSE "ok",
                          [i \in 1..Len(done) |-> done[i].filename])
        /\ UNCHANGED <<drawings, SIZE, palette>>

\* Carries on after a failed write and raises nothing.
save_all_isolated(unwritable) ==
    LET done == SelectSeq(drawings, LAMBDA d : d.filename \notin unwritable)
    IN  /\ files' = WriteAll(files, done)
        /\ call' = Result("save_all", [unwritable |-> unwritable], "ok",
                          [i \in 1..Len(done) |-> done[i].filename])
        /\ UNCHANGED <<drawings, SIZE, palette>>

\* unwritable: the paths the file system refuses to open for writing during
\* this call (missing directory, permissions).
save_all(unwritable) ==
    LET done == Saved(drawings, unwritable)
    IN  /\ files' = WriteAll(files, done)
        /\ call' = Result("save_all", [unwritable |-> unwritable],
                          IF Len(done) = Len(drawings) THEN "ok" ELSE "OSError",
                          [i \in 1..Len(done) |-> done[i].filename])
        /\ UNCHANGED <<drawings, SIZE, palette>>

\* ----------------------------------------------------------------- getters
\* self.SIZE exists only once create_new_drawing has succeeded.
get_size ==
    /\ call' = IF SIZE = Unset
                 THEN Result("get_size", <<>>, "AttributeError", None)
                 ELSE Result("get_size", <<>>, "ok", SIZE)
    /\ UNCHANGED <<drawings, SIZE, palette, files>>

\* Falls back to black for a name the palette lacks.
get_color_default(color_name) ==
    /\ call' = Result("get_color", [color_name |-> color_name], "ok",
                      IF color_name \in DOMAIN palette
                        THEN palette[color_name] ELSE "rgb(0, 0, 0)")
    /\ UNCHANGED <<drawings, SIZE, palette, files>>

\* MultiSVGCreator.COLOR_PALETTE[color_name]
get_color(color_name) ==
    /\ call' = IF color_name \in DOMAIN palette
                 THEN Result("get_color", [color_name |-> color_name], "ok",
                             palette[color_name])
                 ELSE Result("get_color", [color_name |-> color_name],
                             "KeyError", None)
    /\ UNCHANGED <<drawings, SIZE, palette, files>>

\* ------------------------------------------------------- outcomes of a call
Return(op, args) ==
    /\ call' = Result(op, args, "ok", None)
    /\ UNCHANGED <<drawings, SIZE, palette, files>>

Raise(op, args, exc) ==
    /\ call' = Result(op, args, exc, None)
    /\ UNCHANGED <<drawings, SIZE, palette, files>>

AddElement(op, args, e) ==
    /\ drawings' = DrawingAdd(drawings, args.filename, e)
    /\ call' = Result(op, args, "ok", None)
    /\ UNCHANGED <<SIZE, palette, files>>

\* ---------------------------------------------------------------- geometry
\* Creates the drawing when the filename is unknown.
add_rectangle_create(filename, insert, size, fill, stroke) ==
    LET args == [filename |-> filename, insert |-> insert, size |-> size,
                 fill |-> fill, stroke |-> stroke]
        e == [kind |-> "rect", insert |-> insert, size |-> size,
              fill |-> fill, stroke |-> stroke]
    IN  /\ drawings' = IF filename \in Keys(drawings)
                         THEN DrawingAdd(drawings, filename, e)
                         ELSE Append(drawings,
                                     [filename |-> filename, size |-> size,
                                      elements |-> <<e>>])
        /\ call' = Result("add_rectangle", args, "ok", None)
        /\ UNCHANGED <<SIZE, palette, files>>

add_rectangle(filename, insert, size, fill, stroke) ==
    LET args == [filename |-> filename, insert |-> insert, size |-> size,
                 fill |-> fill, stroke |-> stroke]
    IN  IF filename \in Keys(drawings)
          THEN AddElement("add_rectangle", args,
                          [kind |-> "rect", insert |-> insert, size |-> size,
                           fill |-> fill, stroke |-> stroke])
          ELSE Return("add_rectangle", args)

add_circle(filename, center, radius, fill, stroke) ==
    LET args == [filename |-> filename, center |-> center, radius |-> radius,
                 fill |-> fill, stroke |-> stroke]
    IN  IF filename \in Keys(drawings)
          THEN AddElement("add_circle", args,
                          [kind |-> "circle", center |-> center, r |-> radius,
                           fill |-> fill, stroke |-> stroke])
          ELSE Return("add_circle", args)

\* ------------------------------------------------------------------- image
\* A path is its stem and its extension; the image files that can be opened,
\* with the format Pillow detects in each.
NaturePng == [stem |-> "nature", ext |-> ".PNG"]
MissingJpg == [stem |-> "missing", ext |-> ".jpg"]
ImagePaths == {NaturePng, MissingJpg}
Readable == {NaturePng}

Lower(ext) ==
    CASE ext = ".PNG" -> ".png" [] ext = ".GIF" -> ".gif"
      [] ext = ".SVG" -> ".svg" [] ext = ".JPG" -> ".jpg"
      [] OTHER -> ext

DetectedFormat(href) ==
    CASE Lower(href.ext) = ".png" -> "PNG"
      [] Lower(href.ext) = ".gif" -> "GIF"
      [] OTHER -> "JPEG"

FileBytes(href) == [bytes |-> "file", stem |-> href.stem, ext |-> href.ext]

Encoded(format, shape) ==
    [bytes |-> "encoded", format |-> format,
     height |-> shape.height, width |-> shape.width]

B64(bytes) == [base64 |-> bytes]

DataUri(mime_type, image_data) ==
    [scheme |-> "data", mime |-> mime_type, data |-> image_data]

ImageElement(href, insert, size) ==
    [kind |-> "image", href |-> href, insert |-> insert, size |-> size]

link_image(filename, insert, size, href) ==
    LET args == [filename |-> filename, insert |-> insert, size |-> size,
                 href |-> href]
    IN  IF filename \in Keys(drawings)
          THEN AddElement("link_image", args, ImageElement(href, insert, size))
          ELSE Return("link_image", args)

MimeType(href) ==
    IF Lower(href.ext) = ".png" THEN "image/png"
    ELSE IF Lower(href.ext) = ".gif" THEN "image/gif"
    ELSE IF Lower(href.ext) = ".svg" THEN "image/svg+xml"
    ELSE "image/jpeg"

embed_image(filename, insert, size, href) ==
    LET args == [filename |-> filename, insert |-> insert, size |-> size,
                 href |-> href]
    IN  IF filename \in Keys(drawings)
          THEN IF href \notin Readable
                 THEN Raise("embed_image", args, "FileNotFoundError")
                 ELSE AddElement("embed_image", args,
                          ImageElement(DataUri(MimeType(href),
                                               B64(FileBytes(href))),
                                       insert, size))
          ELSE Return("embed_image", args)

\* str.replace('px', ''): every occurrence of "px", left to right, removed.
RECURSIVE ReplacePx(_)
ReplacePx(s) ==
    IF Len(s) = 0 THEN <<>>
    ELSE IF Len(s) >= 2 /\ s[1] = "p" /\ s[2] = "x"
           THEN ReplacePx(SubSeq(s, 3, Len(s)))
           ELSE <<s[1]>> \o ReplacePx(Tail(s))

IsInt(s) == Len(s) > 0 /\ \A i \in 1..Len(s) : s[i] \in Digits

\* int(s) of a string of decimal digits.
RECURSIVE ParseInt(_)
ParseInt(s) ==
    IF Len(s) = 0 THEN 0
    ELSE 10 * ParseInt(SubSeq(s, 1, Len(s) - 1)) + DigitValue(s[Len(s)])

Parses(size) == IsInt(ReplacePx(size[1])) /\ IsInt(ReplacePx(size[2]))

TargetWidth(size) == ParseInt(ReplacePx(size[1]))

TargetHeight(size) == ParseInt(ReplacePx(size[2]))

Mime(format) ==
    CASE format = "PNG" -> "image/png" [] format = "GIF" -> "image/gif"
      [] format = "JPEG" -> "image/jpeg"

embed_image_low_resolution(filename, insert, size, href) ==
    LET args == [filename |-> filename, insert |-> insert, size |-> size,
                 href |-> href]
        img_format == DetectedFormat(href)
        target_size == [height |-> TargetHeight(size),
                        width |-> TargetWidth(size)]
    IN  IF filename \in Keys(drawings)
          THEN IF href \notin Readable
                 THEN Raise("embed_image_low_resolution", args,
                            "FileNotFoundError")
               ELSE IF ~Parses(size)
                 THEN Raise("embed_image_low_resolution", args, "ValueError")
               ELSE IF target_size.width <= 0 \/ target_size.height <= 0
                 THEN Raise("embed_image_low_resolution", args, "ValueError")
               ELSE AddElement("embed_image_low_resolution", args,
                        ImageElement(
                            DataUri(Mime(img_format),
                                    B64(Encoded(img_format, target_size))),
                            insert, size))
          ELSE Return("embed_image_low_resolution", args)

\* An OpenCV image is its shape; cv2.imread gives None for a file it cannot read.
NoImage == [none |-> TRUE]

Image(width, height) == [height |-> height, width |-> width]

embed_cv2_image(filename, insert, size, cv2_image) ==
    LET args == [filename |-> filename, insert |-> insert, size |-> size,
                 cv2_image |-> cv2_image]
    IN  IF filename \in Keys(drawings)
          THEN IF cv2_image = NoImage
                 THEN Raise("embed_cv2_image", args, "cv2.error")
                 ELSE AddElement("embed_cv2_image", args,
                          ImageElement(
                              DataUri("image/png",
                                      B64(Encoded("PNG", cv2_image))),
                              insert, size))
          ELSE Return("embed_cv2_image", args)

\* ---------------------------------------------- adjustable-resolution embed
\* quality_factor is the fraction num/den; every product below is exact.
Quality(num, den) == [num |-> num, den |-> den]

\* Rounds half up where the code truncates.
NewShapeRounded(target_width, target_height, cv2_image, constant_proportions, quality_factor) ==
    LET width == cv2_image.width
        height == cv2_image.height
        byWidth == target_width * height <= target_height * width
        sn == IF byWidth THEN target_width ELSE target_height
        sd == IF byWidth THEN width ELSE height
        qn == quality_factor.num
        qd == quality_factor.den
    IN  IF constant_proportions
          THEN [width |-> (2 * qn * width * sn + qd * sd) \div (2 * qd * sd),
                height |-> (2 * qn * height * sn + qd * sd) \div (2 * qd * sd)]
          ELSE [width |-> (2 * qn * target_width + qd) \div (2 * qd),
                height |-> (2 * qn * target_height + qd) \div (2 * qd)]

\* The (width, height) handed to cv2.resize.  scale = min(scale_w, scale_h) is
\* the fraction sn/sd; int() of a non-negative value is its floor.
NewShape(target_width, target_height, cv2_image, constant_proportions, quality_factor) ==
    LET width == cv2_image.width
        height == cv2_image.height
        byWidth == target_width * height <= target_height * width
        sn == IF byWidth THEN target_width ELSE target_height
        sd == IF byWidth THEN width ELSE height
        qn == quality_factor.num
        qd == quality_factor.den
    IN  IF constant_proportions
          THEN [width |-> (qn * width * sn) \div (qd * sd),
                height |-> (qn * height * sn) \div (qd * sd)]
          ELSE [width |-> (qn * target_width) \div qd,
                height |-> (qn * target_height) \div qd]

AdjustableArgs(filename, insert, size, cv2_image, constant_proportions, quality_factor) ==
    [filename |-> filename, insert |-> insert, size |-> size,
     cv2_image |-> cv2_image, constant_proportions |-> constant_proportions,
     quality_factor |-> quality_factor]

\* The statements after the `if filename in self.drawings:` block, given
\* whether that block ran (known) and so bound target_width and target_height.
ResizeAndEmbed(known, args) ==
    LET op == "embed_cv2_image_adjustable_resolution"
        shape == NewShape(TargetWidth(args.size), TargetHeight(args.size),
                          args.cv2_image, args.constant_proportions,
                          args.quality_factor)
    IN  IF args.cv2_image = NoImage THEN Raise(op, args, "AttributeError")
        ELSE IF ~known THEN Raise(op, args, "UnboundLocalError")
        ELSE IF shape.width <= 0 \/ shape.height <= 0
          THEN Raise(op, args, "cv2.error")
        ELSE AddElement(op, args,
                 ImageElement(DataUri("image/png", B64(Encoded("PNG", shape))),
                              args.insert, args.size))

\* Returns quietly for an unknown filename, as the other mutators do.
embed_cv2_adjustable_guarded(filename, insert, size, cv2_image, constant_proportions, quality_factor) ==
    LET args == AdjustableArgs(filename, insert, size, cv2_image,
                               constant_proportions, quality_factor)
    IN  IF filename \notin Keys(drawings)
          THEN Return("embed_cv2_image_adjustable_resolution", args)
        ELSE IF ~Parses(size)
          THEN Raise("embed_cv2_image_adjustable_resolution", args, "ValueError")
        ELSE ResizeAndEmbed(TRUE, args)

embed_cv2_image_adjustable_resolution(filename, insert, size, cv2_image, constant_proportions, quality_factor) ==
    LET args == AdjustableArgs(filename, insert, size, cv2_image,
                               constant_proportions, quality_factor)
        known == filename \in Keys(drawings)
    IN  IF known /\ ~Parses(size)
          THEN Raise("embed_cv2_image_adjustable_resolution", args, "ValueError")
          ELSE ResizeAndEmbed(known, args)

\* -------------------------------------------------------------------- text
Style(font_size, font_family, fill_color, stroke_color, stroke_width) ==
    [font_size |-> font_size, font_family |-> font_family,
     fill |-> fill_color, stroke |-> stroke_color,
     stroke_width |-> stroke_width]

DefaultStyle == Style("20px", "Arial", "rgb(0, 0, 0)", "rgb(0, 0, 0)", "1.5")

TextElement(text, insert, style, tspans) ==
    [kind |-> "text", text |-> text, insert |-> insert, style |-> style,
     tspans |-> tspans]

add_text(filename, insert, text, style) ==
    LET args == [filename |-> filename, insert |-> insert, text |-> text,
                 style |-> style]
    IN  IF filename \notin Keys(drawings)
          THEN Return("add_text", args)
          ELSE AddElement("add_text", args,
                          TextElement(text, insert, style, <<>>))

Whitespace == {" ", "\n", "\t"}

\* str.strip(): leading and trailing whitespace removed.
RECURSIVE Strip(_)
Strip(s) ==
    IF Len(s) = 0 THEN s
    ELSE IF s[1] \in Whitespace THEN Strip(Tail(s))
    ELSE IF s[Len(s)] \in Whitespace THEN Strip(SubSeq(s, 1, Len(s) - 1))
    ELSE s

\* Breaks at every space, whatever the count.
RECURSIVE WrapEverySpace(_, _, _, _, _)
WrapEverySpace(text, width_limit, lines, line, counter) ==
    IF Len(text) = 0
      THEN IF line # <<>> THEN Append(lines, Strip(line)) ELSE lines
      ELSE LET char == Head(text)
               l == Append(line, char)
           IN  IF char = " "
                 THEN WrapEverySpace(Tail(text), width_limit,
                                     Append(lines, Strip(l)), <<>>, 0)
                 ELSE WrapEverySpace(Tail(text), width_limit, lines, l,
                                     counter + 1)

\* The for loop over text and the trailing `if line:`; lines, line and counter
\* are the loop's variables.
RECURSIVE Wrap(_, _, _, _, _)
Wrap(text, width_limit, lines, line, counter) ==
    IF Len(text) = 0
      THEN IF line # <<>> THEN Append(lines, Strip(line)) ELSE lines
      ELSE LET char == Head(text)
               l == Append(line, char)
               c == counter + 1
           IN  IF c >= width_limit /\ char = " "
                 THEN Wrap(Tail(text), width_limit, Append(lines, Strip(l)),
                           <<>>, 0)
                 ELSE Wrap(Tail(text), width_limit, lines, l, c)

\* One TSpan per line: dy is 0 for the first and line_height for the others.
TSpans(lines, insert, line_height) ==
    [i \in 1..Len(lines) |->
        [text |-> lines[i], x |-> insert[1],
         dy |-> IF i = 1 THEN 0 ELSE line_height]]

add_text_with_width_limit(filename, insert, text, style, width_limit, line_height) ==
    LET args == [filename |-> filename, insert |-> insert, text |-> text,
                 style |-> style, width_limit |-> width_limit,
                 line_height |-> line_height]
        lines == Wrap(text, width_limit, <<>>, <<>>, 0)
    IN  IF filename \notin Keys(drawings)
          THEN Return("add_text_with_width_limit", args)
          ELSE AddElement("add_text_with_width_limit", args,
                   TextElement(<<>>, insert, style,
                               TSpans(lines, insert, line_height)))

\* ------------------------------------------------------------ specification
\* An append is explored while the registry holds fewer than max elements.
Room(filename, max) ==
    filename \in Keys(drawings) => TotalElements(drawings) < max

Create(sizes) == \E f \in Filenames, size \in sizes : create_new_drawing(f, size)

SaveAll(sets) == \E unwritable \in sets : save_all(unwritable)

GetSize == get_size

GetColor ==
    \E n \in DOMAIN COLOR_PALETTE \cup {"no_such_color"} : get_color(n)

AddRectangle(max) ==
    \E f \in Filenames :
        Room(f, max) /\ add_rectangle(f, Origin, <<1, 1>>, "none", "black")

AddCircle(max) ==
    \E f \in Filenames :
        Room(f, max) /\ add_circle(f, Origin, 1, "none", "black")

LinkImage(max) ==
    \E f \in Filenames :
        Room(f, max) /\ link_image(f, Origin, SmallSize, NaturePng)

EmbedImage(max) ==
    \E f \in Filenames, href \in ImagePaths :
        Room(f, max) /\ embed_image(f, Origin, SmallSize, href)

EmbedImageLowResolution(max, inputs) ==
    \E f \in Filenames, in \in inputs :
        Room(f, max) /\ embed_image_low_resolution(f, Origin, in[2], in[1])

EmbedCv2Image(max) ==
    \E f \in Filenames, img \in {Image(4, 2), NoImage} :
        Room(f, max) /\ embed_cv2_image(f, Origin, SmallSize, img)

EmbedCv2ImageAdjustableResolution(max, inputs) ==
    \E f \in Filenames, in \in inputs :
        Room(f, max) /\ embed_cv2_image_adjustable_resolution(
                            f, Origin, in[2], in[1], in[3], in[4])

AddText(max) ==
    \E f \in Filenames :
        Room(f, max) /\ add_text(f, Origin, <<"h", "i">>, DefaultStyle)

AddTextWithWidthLimit(max, inputs) ==
    \E f \in Filenames, in \in inputs :
        Room(f, max) /\ add_text_with_width_limit(
                            f, Origin, in[1], DefaultStyle, in[2], 20)

LowResInputs ==
    {<<NaturePng, SmallSize>>, <<NaturePng, BadSize>>, <<MissingJpg, SmallSize>>}

AdjustableInputs ==
    {<<Image(4, 2), SmallSize, TRUE, Quality(3, 2)>>,
     <<Image(4, 2), SmallSize, FALSE, Quality(3, 2)>>,
     <<NoImage, SmallSize, TRUE, Quality(1, 1)>>,
     <<NoImage, SmallSize, FALSE, Quality(1, 1)>>,
     <<Image(4, 2), BadSize, FALSE, Quality(1, 1)>>}

WrapInputs == {<< <<"a", " ", "b", " ", "c">>, 2 >>}

\* Every operation, with arguments of every kind, on a registry of at most
\* MaxElements elements.
Next ==
    \/ Create(Sizes)
    \/ SaveAll(SUBSET Filenames)
    \/ GetSize
    \/ GetColor
    \/ AddRectangle(MaxElements)
    \/ AddCircle(MaxElements)
    \/ LinkImage(MaxElements)
    \/ EmbedImage(MaxElements)
    \/ EmbedImageLowResolution(MaxElements, LowResInputs)
    \/ EmbedCv2Image(MaxElements)
    \/ EmbedCv2ImageAdjustableResolution(MaxElements, AdjustableInputs)
    \/ AddText(MaxElements)
    \/ AddTextWithWidthLimit(MaxElements, WrapInputs)

Spec == Init /\ [][Next]_vars

\* Every operation that appends, on a registry of at most MaxDepth elements,
\* with the calls that fail and the calls that leave the registry alone.
NextAppend ==
    \/ Create({SmallSize})
    \/ SaveAll({{}})
    \/ AddRectangle(MaxDepth)
    \/ AddCircle(MaxDepth)
    \/ LinkImage(MaxDepth)
    \/ EmbedImage(MaxDepth)
    \/ EmbedImageLowResolution(MaxDepth, {<<NaturePng, SmallSize>>,
                                          <<NaturePng, BadSize>>})
    \/ EmbedCv2Image(MaxDepth)
    \/ EmbedCv2ImageAdjustableResolution(
           MaxDepth, {<<Image(4, 2), SmallSize, TRUE, Quality(3, 2)>>,
                      <<NoImage, SmallSize, TRUE, Quality(1, 1)>>})
    \/ AddText(MaxDepth)
    \/ AddTextWithWidthLimit(MaxDepth, WrapInputs)

SpecAppend == Init /\ [][NextAppend]_vars

\* Creating, drawing and saving, with every set of unwritable paths.
NextSave ==
    \/ Create(Sizes)
    \/ AddRectangle(MaxDepth)
    \/ AddText(MaxDepth)
    \/ SaveAll(SUBSET Filenames)
    \/ GetSize

SpecSave == Init /\ [][NextSave]_vars

\* The first drawing call a caller makes, before or right after creating the
\* drawing: the wide input sets below are explored one call deep.
Fresh(filename) ==
    /\ call.op \in {"__init__", "create_new_drawing"}
    /\ filename \in Keys(drawings) => Lookup(drawings, filename).elements = <<>>

CreateA == create_new_drawing("a.svg", SmallSize)

\* str(n) for n >= 0.
RECURSIVE Decimal(_)
Decimal(n) ==
    LET d == CHOOSE c \in Digits : DigitValue(c) = n % 10
    IN  IF n < 10 THEN <<d>> ELSE Append(Decimal(n \div 10), d)

\* A size tuple of two pixel counts, the first with the 'px' suffix.
PxSize(w, h) == <<Decimal(w) \o <<"p", "x">>, Decimal(h)>>

Qualities == {Quality(1, 2), Quality(1, 1), Quality(3, 2), Quality(2, 1)}

ResizeInputs ==
    {<<Image(w, h), PxSize(tw, th), cp, q>> :
        w \in 1..MaxDim, h \in 1..MaxDim, tw \in 0..MaxDim, th \in 0..MaxDim,
        cp \in BOOLEAN, q \in Qualities}
    \cup {<<Image(200, 100), HundredSize, TRUE, Quality(1, 1)>>,
          <<Image(200, 100), HundredByFifty, FALSE, Quality(2, 1)>>,
          <<NoImage, SmallSize, TRUE, Quality(1, 1)>>,
          <<Image(4, 2), BadSize, TRUE, Quality(1, 1)>>}

ResizeStep ==
    \E in \in ResizeInputs :
        Fresh("a.svg") /\ embed_cv2_image_adjustable_resolution(
                              "a.svg", Origin, in[2], in[1], in[3], in[4])

\* embed_cv2_image_adjustable_resolution over source shapes, target sizes,
\* both policies and quality factors, each on a fresh or a missing drawing.
NextResize ==
    \/ CreateA
    \/ ResizeStep

SpecResize == Init /\ [][NextResize]_vars

TextsUpTo(n) == UNION {[1..k -> {"a", " "}] : k \in 0..n}

ExampleText ==
    <<"a", "a", "a", "a", "a", " ", "b", "b", "b", "b", "b", " ",
      "c", "c", "c", "c", "c">>

WrapAllInputs ==
    (TextsUpTo(MaxTextLen) \X (0..MaxWidthLimit))
    \cup {<<ExampleText, 10>>, <<ExampleText, 5>>,
          <<<<"\n", "a", " ", " ", "b", "\n">>, 2>>}

WrapStep ==
    \E in \in WrapAllInputs :
        Fresh("a.svg") /\ add_text_with_width_limit(
                              "a.svg", Origin, in[1], DefaultStyle, in[2], 20)

\* add_text_with_width_limit over every short text of letters and spaces and
\* every small width_limit, each on a fresh or a missing drawing.
NextWrap ==
    \/ CreateA
    \/ WrapStep

SpecWrap == Init /\ [][NextWrap]_vars

\* ================================================================== claims
FilenameOf(c) == c.args.filename

\* The operations that return quietly when the filename is unknown.
GuardedOps ==
    {"add_rectangle", "add_circle", "link_image", "embed_image",
     "embed_image_low_resolution", "embed_cv2_image", "add_text",
     "add_text_with_width_limit"}

AppendOps == GuardedOps \cup {"embed_cv2_image_adjustable_resolution"}

KindOf(op) ==
    CASE op = "add_rectangle" -> "rect"
      [] op = "add_circle" -> "circle"
      [] op \in {"add_text", "add_text_with_width_limit"} -> "text"
      [] OTHER -> "image"

C2_SizeOfEveryDrawing ==
    call.op = "get_size" =>
        \A i \in 1..Len(drawings) :
            call.status = "ok" /\ call.value = drawings[i].size

\* C3: the eight guarded mutators, called with a filename that is not in the
\* registry, return without an error and leave the registry as it was.
C3_UnknownIdIsNoOp ==
    [][(call'.op \in GuardedOps /\ FilenameOf(call') \notin Keys(drawings))
          => /\ call'.status = "ok"
             /\ drawings' = drawings]_vars

C3_Witness ==
    /\ call.op = "embed_image_low_resolution"
    /\ call.status = "ok"
    /\ FilenameOf(call) \notin Keys(drawings)
    /\ call.args.size = BadSize
    /\ TotalElements(drawings) > 0

\* C4: in every step each drawing keeps its place and its elements, except
\* that a successful add, link, embed or text call on its filename puts
\* exactly one element, of the kind the call makes, after the ones it had.
C4_AppendOnly ==
    [][/\ Len(drawings') >= Len(drawings)
       /\ \A i \in 1..Len(drawings) :
            LET f == drawings[i].filename
                old == drawings[i].elements
                new == drawings'[i].elements
            IN  /\ drawings'[i].filename = f
                /\ IF /\ call'.op \in AppendOps
                      /\ call'.status = "ok"
                      /\ FilenameOf(call') = f
                     THEN /\ Len(new) = Len(old) + 1
                          /\ SubSeq(new, 1, Len(old)) = old
                          /\ new[Len(new)].kind = KindOf(call'.op)
                     ELSE new = old]_vars

C4_Witness ==
    /\ call.op = "add_text_with_width_limit"
    /\ call.status = "ok"
    /\ Len(drawings) = 2
    /\ LET e == Lookup(drawings, FilenameOf(call)).elements
       IN  Len(e) = 2 /\ e[1].kind = "image" /\ e[2].kind = "text"

\* C5 as claimed: after save_all every drawing whose own file can be written
\* has been written, whatever happened to the others.
C5_EverySaveIndependent ==
    call.op = "save_all" =>
        \A i \in 1..Len(drawings) :
            drawings[i].filename \notin call.args.unwritable
                => files[drawings[i].filename] = ToXml(drawings[i])

\* C5 amended: save_all writes the drawings in creation order and stops at
\* the first write that fails, raising it: the drawings before it are
\* written, that drawing and the ones after it keep the file they had.
C5_SaveStopsAtFirstFailure ==
    [][call'.op = "save_all" =>
         LET bad == {i \in 1..Len(drawings) :
                         drawings[i].filename \in call'.args.unwritable}
             first == IF bad = {} THEN Len(drawings) + 1
                      ELSE CHOOSE i \in bad : \A j \in bad : i <= j
         IN  /\ call'.status = IF bad = {} THEN "ok" ELSE "OSError"
             /\ \A i \in 1..Len(drawings) :
                  LET p == drawings[i].filename
                  IN  IF i < first
                        THEN /\ files'[p].tag = "svg"
                             /\ files'[p].size = drawings[i].size
                             /\ Tail(files'[p].children) = drawings[i].elements
                        ELSE files'[p] = files[p]]_vars

C5_Witness ==
    /\ call.op = "save_all"
    /\ call.status = "OSError"
    /\ Len(drawings) = 2
    /\ drawings[1].filename \in call.args.unwritable
    /\ drawings[2].filename \notin call.args.unwritable
    /\ drawings[2].elements # <<>>
    /\ files[drawings[2].filename] = NoFile

\* C6: a save_all in which no write fails raises nothing and leaves, at each
\* drawing's filename, a file holding that drawing's size and its elements as
\* they are at the call, also where an older file was; every other path keeps
\* what it had, so an empty registry writes nothing.
C6_SaveWritesEveryDrawing ==
    [][(call'.op = "save_all" /\ Keys(drawings) \cap call'.args.unwritable = {})
          => /\ call'.status = "ok"
             /\ \A p \in DOMAIN files :
                  IF p \in Keys(drawings)
                    THEN /\ files'[p].tag = "svg"
                         /\ files'[p].size = Lookup(drawings, p).size
                         /\ Tail(files'[p].children)
                              = Lookup(drawings, p).elements
                    ELSE files'[p] = files[p]]_vars

C6_Witness ==
    /\ call.op = "save_all"
    /\ call.status = "ok"
    /\ Len(drawings) = 2
    /\ \A i \in 1..2 :
         /\ Len(drawings[i].elements) = 1
         /\ Tail(files[drawings[i].filename].children) = drawings[i].elements
    /\ drawings[1].elements # drawings[2].elements

\* The value the resize policy aims at, as the fraction num/den:
\* quality_factor * scale * source_dim with scale the smaller of
\* target_width/source_width and target_height/source_height, or
\* quality_factor * target_dim.
Aim(args, axis) ==
    LET w == args.cv2_image.width
        h == args.cv2_image.height
        tw == TargetWidth(args.size)
        th == TargetHeight(args.size)
        q == args.quality_factor
        scale == CHOOSE r \in {<<tw, w>>, <<th, h>>} :
                     r[1] * w <= tw * r[2] /\ r[1] * h <= th * r[2]
        source == IF axis = "width" THEN w ELSE h
        target == IF axis = "width" THEN tw ELSE th
    IN  IF args.constant_proportions
          THEN [num |-> q.num * scale[1] * source, den |-> q.den * scale[2]]
          ELSE [num |-> q.num * target, den |-> q.den]

\* n is the nearest integer to num/den (either neighbour at a half).
IsRounded(n, r) == 2 * n * r.den - r.den <= 2 * r.num /\ 2 * r.num <= 2 * n * r.den + r.den

\* n is num/den truncated.
IsTruncated(n, r) == n * r.den <= r.num /\ r.num < (n + 1) * r.den

\* The shape of the PNG embedded by the last call.
EmbeddedShape ==
    LET e == Lookup(drawings, FilenameOf(call)).elements
        png == e[Len(e)].href.data.base64
    IN  Image(png.width, png.height)

\* The last call was an adjustable-resolution embed that returned.
ResizedOk ==
    /\ call.op = "embed_cv2_image_adjustable_resolution"
    /\ call.status = "ok"
    /\ FilenameOf(call) \in Keys(drawings)

\* The two calls the claim works out: source 200x100 with target (100,100),
\* factor 1, proportions kept; and target (100,50), factor 2, not kept.
ExampleKept ==
    /\ call.args.cv2_image = Image(200, 100)
    /\ call.args.size = HundredSize
    /\ call.args.quality_factor = Quality(1, 1)
    /\ call.args.constant_proportions

ExampleNotKept ==
    /\ call.args.size = HundredByFifty
    /\ call.args.quality_factor = Quality(2, 1)
    /\ ~call.args.constant_proportions

\* C7 as claimed: the embedded image has, per axis, the aimed value rounded
\* to the nearest integer; the first example gives 50x50 and the second
\* 200x100.
C7_RoundedDimensions ==
    ResizedOk =>
        /\ IsRounded(EmbeddedShape.width, Aim(call.args, "width"))
        /\ IsRounded(EmbeddedShape.height, Aim(call.args, "height"))
        /\ ExampleKept => EmbeddedShape = Image(50, 50)
        /\ ExampleNotKept => EmbeddedShape = Image(200, 100)

\* C7 amended: the embedded image has, per axis, the aimed value truncated to
\* an integer; the first example gives 100x50 (scale 1/2 on both axes) and
\* the second 200x100.
C7_TruncatedDimensions ==
    ResizedOk =>
        /\ IsTruncated(EmbeddedShape.width, Aim(call.args, "width"))
        /\ IsTruncated(EmbeddedShape.height, Aim(call.args, "height"))
        /\ ExampleKept => EmbeddedShape = Image(100, 50)
        /\ ExampleNotKept => EmbeddedShape = Image(200, 100)

C7_Witness ==
    /\ ResizedOk
    /\ call.args.constant_proportions
    /\ ~IsRounded(EmbeddedShape.height, Aim(call.args, "height"))
    /\ IsTruncated(EmbeddedShape.height, Aim(call.args, "height"))

\* The lines of the claim: a line ends at the first space whose position in
\* the current line is at or after width_limit, the rest is cut the same way,
\* and what remains at the end is the last line; each without the whitespace
\* around it.
RECURSIVE GreedyLines(_, _)
GreedyLines(text, width_limit) ==
    LET breaks == {i \in 1..Len(text) : text[i] = " " /\ i >= width_limit}
        b == CHOOSE i \in breaks : \A j \in breaks : i <= j
    IN  IF text = <<>> THEN <<>>
        ELSE IF breaks = {} THEN <<Strip(text)>>
        ELSE <<Strip(SubSeq(text, 1, b))>>
                 \o GreedyLines(SubSeq(text, b + 1, Len(text)), width_limit)

\* The last call was add_text_with_width_limit on a drawing of the registry.
WrappedOk ==
    /\ call.op = "add_text_with_width_limit"
    /\ call.status = "ok"
    /\ FilenameOf(call) \in Keys(drawings)

\* The sub-spans of the text element added by the last call.
AddedSpans ==
    LET e == Lookup(drawings, FilenameOf(call)).elements
    IN  e[Len(e)].tspans

C9_PaletteLookup ==
    /\ palette = COLOR_PALETTE
    /\ DOMAIN palette = {"light_blue", "dark_blue", "dark_blue_2", "black", "white"}
    /\ call.op = "get_color" =>
         IF call.args.color_name \in DOMAIN COLOR_PALETTE
           THEN /\ call.status = "ok"
                /\ call.value = COLOR_PALETTE[call.args.color_name]
                /\ call.args.color_name = "dark_blue"
                     => call.value = "rgb(0, 96, 169)"
           ELSE call.status = "KeyError"

C9_Witness ==
    /\ call.op = "get_color"
    /\ call.args.color_name = "no_such_color"
    /\ call.status = "KeyError"
    /\ TotalElements(drawings) > 0
    /\ \E p \in DOMAIN files : files[p] # NoFile

\* C10: embed_cv2_image_adjustable_resolution with a filename that is not in
\* the registry ends with an error under either policy and leaves the
\* registry as it was.
C10_UnknownIdRaises ==
    [][(/\ call'.op = "embed_cv2_image_adjustable_resolution"
        /\ FilenameOf(call') \notin Keys(drawings))
          => /\ call'.status # "ok"
             /\ drawings' = drawings]_vars

C10_Witness ==
    /\ call.op = "embed_cv2_image_adjustable_resolution"
    /\ call.status = "UnboundLocalError"
    /\ ~call.args.constant_proportions
    /\ FilenameOf(call) \notin Keys(drawings)
    /\ TotalElements(drawings) > 0

====
